---- MODULE Spec2Model ----
(***************************************************************************)
(* Researcher profile enrichment (app/harvesters/researcher_enricher.py):  *)
(* author extraction, name disambiguation, profile upsert and authorship   *)
(* linking over the SQLAlchemy session of app/database.py.                 *)
(*                                                                         *)
(* Strings are sequences of one-character strings, so that strip(),        *)
(* lower(), replace(), ILIKE and fuzz.token_sort_ratio are computed, not   *)
(* assumed.                                                                *)
(***************************************************************************)
EXTENDS Integers, Sequences, FiniteSets, TLC

\* Python None / SQL NULL
None == "None"

(***************************************************************************)
(* Characters and the string functions the enricher uses.                  *)
(***************************************************************************)

\* the characters of the modelled names, in code point order
Alphabet == <<" ", ",", "A", "B", "_", "a", "b">>

Ord(c) == CHOOSE i \in 1..Len(Alphabet) : Alphabet[i] = c

IsSpace(c) == c = " "

\* \W of fuzzywuzzy's StringProcessor: anything but letters, digits and "_"
IsNonWord(c) == c \in {" ", ","}

LowerChar(c) == CASE c = "A" -> "a" [] c = "B" -> "b" [] OTHER -> c

\* str.lower()
Lower(s) == [i \in 1..Len(s) |-> LowerChar(s[i])]

RECURSIVE LStrip(_)
LStrip(s) == IF s # <<>> /\ IsSpace(Head(s)) THEN LStrip(Tail(s)) ELSE s

RECURSIVE RStrip(_)
RStrip(s) ==
    IF s # <<>> /\ IsSpace(s[Len(s)]) THEN RStrip(SubSeq(s, 1, Len(s) - 1)) ELSE s

\* str.strip()
Strip(s) == RStrip(LStrip(s))

\* str.replace(' ', '_')
ReplaceSpace(s) == [i \in 1..Len(s) |-> IF s[i] = " " THEN "_" ELSE s[i]]

\* str.split(): the maximal runs of non-space characters
RECURSIVE Split(_)
Split(s) ==
    LET t == LStrip(s)
        RECURSIVE WordLen(_)
        WordLen(u) == IF u = <<>> \/ IsSpace(Head(u)) THEN 0 ELSE 1 + WordLen(Tail(u))
    IN  IF t = <<>> THEN <<>>
        ELSE LET n == WordLen(t)
             IN  <<SubSeq(t, 1, n)>> \o Split(SubSeq(t, n + 1, Len(t)))

\* Python's order on strings
RECURSIVE StrLess(_, _)
StrLess(s, t) ==
    IF t = <<>> THEN FALSE
    ELSE IF s = <<>> THEN TRUE
    ELSE IF Head(s) = Head(t) THEN StrLess(Tail(s), Tail(t))
    ELSE Ord(Head(s)) < Ord(Head(t))

\* sorted(tokens)
RECURSIVE Insert(_, _)
Insert(tok, ts) ==
    IF ts = <<>> THEN <<tok>>
    ELSE IF StrLess(Head(ts), tok) \/ Head(ts) = tok
         THEN <<Head(ts)>> \o Insert(tok, Tail(ts))
         ELSE <<tok>> \o ts

RECURSIVE Sorted(_)
Sorted(ts) == IF ts = <<>> THEN <<>> ELSE Insert(Head(ts), Sorted(Tail(ts)))

\* " ".join(tokens)
RECURSIVE Join(_)
Join(ts) ==
    IF ts = <<>> THEN <<>>
    ELSE IF Len(ts) = 1 THEN Head(ts)
    ELSE Head(ts) \o <<" ">> \o Join(Tail(ts))

\* fuzzywuzzy utils.full_process: non-word characters to spaces, lower, strip
FullProcess(s) ==
    Strip(Lower([i \in 1..Len(s) |-> IF IsNonWord(s[i]) THEN " " ELSE s[i]]))

\* fuzzywuzzy fuzz._process_and_sort
ProcessAndSort(s) == Strip(Join(Sorted(Split(FullProcess(s)))))

\* difflib.SequenceMatcher.find_longest_match on a[alo..ahi], b[blo..bhi]
\* (1-based, inclusive): the longest block, the earliest in a, then in b
LongestMatch(a, alo, ahi, b, blo, bhi) ==
    LET Blocks == {m \in (alo..ahi) \X (blo..bhi) \X (1..(ahi - alo + 1)) :
                      /\ m[1] + m[3] - 1 <= ahi
                      /\ m[2] + m[3] - 1 <= bhi
                      /\ \A d \in 0..(m[3] - 1) : a[m[1] + d] = b[m[2] + d]}
        Better(m, n) == \/ m[3] > n[3]
                        \/ m[3] = n[3] /\ m[1] < n[1]
                        \/ m[3] = n[3] /\ m[1] = n[1] /\ m[2] < n[2]
    IN  IF Blocks = {} THEN <<alo, blo, 0>>
        ELSE CHOOSE m \in Blocks : \A n \in Blocks : n = m \/ Better(m, n)

\* the number of matched characters of SequenceMatcher.get_matching_blocks
RECURSIVE MatchCount(_, _, _, _, _, _)
MatchCount(a, alo, ahi, b, blo, bhi) ==
    IF alo > ahi \/ blo > bhi THEN 0
    ELSE LET m == LongestMatch(a, alo, ahi, b, blo, bhi)
         IN  IF m[3] = 0 THEN 0
             ELSE m[3]
                  + MatchCount(a, alo, m[1] - 1, b, blo, m[2] - 1)
                  + MatchCount(a, m[1] + m[3], ahi, b, m[2] + m[3], bhi)

\* Python 3 round(): round half to even, of the rational num / den
RoundHalfEven(num, den) ==
    LET q == num \div den
        r == num % den
    IN  IF 2 * r < den THEN q
        ELSE IF 2 * r > den THEN q + 1
        ELSE IF q % 2 = 0 THEN q ELSE q + 1

\* fuzz.ratio: 100 if equal, 0 if one is empty, else intr(100 * 2M/T)
Ratio(s1, s2) ==
    IF s1 = s2 THEN 100
    ELSE IF s1 = <<>> \/ s2 = <<>> THEN 0
    ELSE RoundHalfEven(200 * MatchCount(s1, 1, Len(s1), s2, 1, Len(s2)),
                       Len(s1) + Len(s2))

\* fuzz.token_sort_ratio
token_sort_ratio(s1, s2) == Ratio(ProcessAndSort(s1), ProcessAndSort(s2))

\* SQL LIKE: "%" matches any run of characters, "_" any one character
RECURSIVE Like(_, _)
Like(pat, s) ==
    IF pat = <<>> THEN s = <<>>
    ELSE IF Head(pat) = "%"
         THEN \E k \in 0..Len(s) : Like(Tail(pat), SubSeq(s, k + 1, Len(s)))
    ELSE /\ s # <<>>
         /\ Head(pat) = "_" \/ Head(pat) = Head(s)
         /\ Like(Tail(pat), Tail(s))

\* Column.ilike(f"%{name}%"): lower(column) LIKE lower(pattern)
ILikeContains(column, name) == Like(Lower(<<"%">> \o name \o <<"%">>), Lower(column))

\* "".join(chars): a Python str as a TLA+ string, for the ids built by f-strings
RECURSIVE Str(_)
Str(s) == IF s = <<>> THEN "" ELSE Head(s) \o Str(Tail(s))

\* truth value of an optional string (None and "" are false)
Truthy(v) == v # None /\ v # ""

(***************************************************************************)
(* Bounds and input universes.                                             *)
(***************************************************************************)

MaxMentions == 3
MaxPubs == 2
MaxAuthors == 2
MaxRuns == 2
MaxEntries == 3
MaxRows == 2

\* a name that is JSON null, as OpenAIRE records without fullname are stored
\* (openaire.py line 290); "None" is not a character of the alphabet
NameNone == <<None>>

N_a == <<"a">>
N_ab == <<"a", " ", "b">>
N_Ab == <<"A", " ", "b">>
N_ba == <<"b", " ", "a">>
N_a_b == <<"a", "_", "b">>
N_b == <<"b">>
N_baba == <<"b", "a", "b", "a">>

Orcids == {"X", "Y"}

VARIABLES
    publication,        \* table publication: rows [id, organization_id, authors]
    researcher,         \* table researcher, committed rows in rowid order
    publication_author, \* table publication_author, committed rows
    pc,                 \* where the running call stands
    fuzzy_threshold,    \* ResearcherEnricher.fuzzy_threshold
    db,                 \* the SQLAlchemy session of the running call
    stats,              \* the stats dict of the running call
    authors_by_org,     \* enrich_all: the buckets, in dict insertion order
    org_i,              \* enrich_all: the bucket the loop of line 102 is at
    merged_authors,     \* enrich_all: the clusters of the current bucket
    cluster_of,         \* for each mention of the current bucket, its cluster
    author_i,           \* enrich_all: the cluster the loop of line 110 is at
    pub_i,              \* the publication the linker loop of line 275 is at
    linked,             \* the linker's local counter
    call,               \* the running call: "enrich_all" or "link"
    runs,               \* calls started so far, the clock of utcnow()
    hist,               \* the store as the previous calls left it
    args,               \* scripts/enrich_researchers.py: the parsed arguments
    race                \* two concurrent upserts of one cluster: each run's state

vars == <<publication, researcher, publication_author, pc, fuzzy_threshold, db,
          stats, authors_by_org, org_i, merged_authors, cluster_of, author_i,
          pub_i, linked, call, runs, hist, args, race>>

(***************************************************************************)
(* Disambiguation: ResearcherEnricher._deduplicate_authors.                *)
(***************************************************************************)

\* seen remembering the latest entry only
SeenIndexLastEntry(deduplicated, orcid) ==
    LET Hit(i) == /\ deduplicated[i].orcid = orcid
                  /\ i = Len(deduplicated)
    IN  IF \E i \in 1..Len(deduplicated) : Hit(i)
        THEN CHOOSE i \in 1..Len(deduplicated) : Hit(i)
        ELSE 0

\* index of the entry that seen[orcid] refers to (the dict holds the very
\* object appended to deduplicated), 0 if orcid is not in seen
SeenIndex(deduplicated, orcid) ==
    IF \E i \in 1..Len(deduplicated) : deduplicated[i].orcid = orcid
    THEN CHOOSE i \in 1..Len(deduplicated) :
            /\ deduplicated[i].orcid = orcid
            /\ \A j \in 1..(i - 1) : deduplicated[j].orcid # orcid
    ELSE 0

\* the comparison of line 187 written with > for >=
FuzzyMatchIndexStrict(deduplicated, name, threshold) ==
    LET Matches(i) ==
            /\ ~Truthy(deduplicated[i].orcid)
            /\ token_sort_ratio(name, Strip(Lower(deduplicated[i].name))) > threshold
    IN  IF \E i \in 1..Len(deduplicated) : Matches(i)
        THEN CHOOSE i \in 1..Len(deduplicated) :
                Matches(i) /\ \A j \in 1..(i - 1) : ~Matches(j)
        ELSE 0

\* the loop of line 182 without the test of line 183
FuzzyMatchIndexAnyOrcid(deduplicated, name, threshold) ==
    LET Matches(i) ==
            token_sort_ratio(name, Strip(Lower(deduplicated[i].name))) >= threshold
    IN  IF \E i \in 1..Len(deduplicated) : Matches(i)
        THEN CHOOSE i \in 1..Len(deduplicated) :
                Matches(i) /\ \A j \in 1..(i - 1) : ~Matches(j)
        ELSE 0

\* the loop of line 182 keeping the best score instead of breaking at the first
FuzzyMatchIndexBest(deduplicated, name, threshold) ==
    LET Sc(i) == token_sort_ratio(name, Strip(Lower(deduplicated[i].name)))
        Matches(i) == ~Truthy(deduplicated[i].orcid) /\ Sc(i) >= threshold
    IN  IF \E i \in 1..Len(deduplicated) : Matches(i)
        THEN CHOOSE i \in 1..Len(deduplicated) :
                /\ Matches(i)
                /\ \A j \in 1..Len(deduplicated) :
                      Matches(j) => \/ Sc(j) < Sc(i)
                                    \/ Sc(j) = Sc(i) /\ i <= j
        ELSE 0

\* lines 182-192: the first entry without ORCID whose name scores at or
\* above the threshold, 0 if there is none
FuzzyMatchIndex(deduplicated, name, threshold) ==
    LET Matches(i) ==
            /\ ~Truthy(deduplicated[i].orcid)
            /\ token_sort_ratio(name, Strip(Lower(deduplicated[i].name))) >= threshold
    IN  IF \E i \in 1..Len(deduplicated) : Matches(i)
        THEN CHOOSE i \in 1..Len(deduplicated) :
                Matches(i) /\ \A j \in 1..(i - 1) : ~Matches(j)
        ELSE 0

\* the affiliation of entry i replaced by every affiliation that comes
MergeAffiliationOverwrite(deduplicated, i, author) ==
    IF Truthy(author.affiliation)
    THEN [deduplicated EXCEPT ![i].affiliation = author.affiliation]
    ELSE deduplicated

\* lines 176-177 and 189-190: fill the affiliation of entry i if it has none
MergeAffiliation(deduplicated, i, author) ==
    IF Truthy(author.affiliation) /\ ~Truthy(deduplicated[i].affiliation)
    THEN [deduplicated EXCEPT ![i].affiliation = author.affiliation]
    ELSE deduplicated

\* the loop of line 182 looking at the last entry only
DedupStepLastOnly(st, author, threshold) ==
    LET name == Strip(Lower(author.name))
        orcid == author.orcid
        n == Len(st.deduplicated)
        Append1 == [deduplicated |-> Append(st.deduplicated, author),
                    cluster_of |-> Append(st.cluster_of, n + 1)]
        MergeInto(i) == [deduplicated |-> MergeAffiliation(st.deduplicated, i, author),
                         cluster_of |-> Append(st.cluster_of, i)]
    IN  IF Truthy(orcid)
        THEN LET s == SeenIndex(st.deduplicated, orcid)
             IN  IF s = 0 THEN Append1 ELSE MergeInto(s)
        ELSE IF /\ n > 0
                /\ ~Truthy(st.deduplicated[n].orcid)
                /\ token_sort_ratio(name, Strip(Lower(st.deduplicated[n].name)))
                       >= threshold
             THEN MergeInto(n)
             ELSE Append1

\* one iteration of the loop of line 165; st = [deduplicated, cluster_of]
DedupStep(st, author, threshold) ==
    LET name == Strip(Lower(author.name))
        orcid == author.orcid
        Append1 == [deduplicated |-> Append(st.deduplicated, author),
                    cluster_of |-> Append(st.cluster_of, Len(st.deduplicated) + 1)]
        MergeInto(i) == [deduplicated |-> MergeAffiliation(st.deduplicated, i, author),
                         cluster_of |-> Append(st.cluster_of, i)]
    IN  IF Truthy(orcid)
        THEN LET s == SeenIndex(st.deduplicated, orcid)
             IN  IF s = 0 THEN Append1 ELSE MergeInto(s)
        ELSE LET m == FuzzyMatchIndex(st.deduplicated, name, threshold)
             IN  IF m = 0 THEN Append1 ELSE MergeInto(m)

RECURSIVE DedupLoop(_, _, _)
DedupLoop(st, authors, threshold) ==
    IF authors = <<>> THEN st
    ELSE DedupLoop(DedupStep(st, Head(authors), threshold), Tail(authors), threshold)

\* _deduplicate_authors(authors, org_id, db)
deduplicate_authors(authors, threshold) ==
    DedupLoop([deduplicated |-> <<>>, cluster_of |-> <<>>], authors, threshold)

(***************************************************************************)
(* The SQLAlchemy session: sessionmaker(autocommit=False, autoflush=False). *)
(* rows is what the SQL of a query sees inside the transaction, objs the    *)
(* attributes of the mapped objects; they differ from an assignment to an   *)
(* attribute until the next flush.                                          *)
(***************************************************************************)

\* SessionLocal()
SessionLocal ==
    [rows |-> researcher, objs |-> researcher, links |-> publication_author,
     active |-> TRUE]

\* db.close() after a failure: the transaction is rolled back
Closed ==
    [rows |-> researcher, objs |-> researcher, links |-> publication_author,
     active |-> FALSE]

\* orcid_id without unique=True
ConstraintsHoldIdOnly(rs) ==
    \A i, j \in 1..Len(rs) : i # j => rs[i].id # rs[j].id

\* id without primary_key=True
ConstraintsHoldOrcidOnly(rs) ==
    \A i, j \in 1..Len(rs) :
        i # j => rs[i].orcid_id = None \/ rs[i].orcid_id # rs[j].orcid_id

\* Researcher.id is the primary key, Researcher.orcid_id is unique (NULLs apart)
ConstraintsHold(rs) ==
    \A i, j \in 1..Len(rs) :
        i # j => /\ rs[i].id # rs[j].id
                 /\ rs[i].orcid_id = None \/ rs[i].orcid_id # rs[j].orcid_id

\* db.flush(): the UPDATEs of the changed objects and the INSERTs of the added
\* ones; a constraint violation rolls the transaction back and leaves the
\* session unusable until rollback(), which the enricher never calls
Flush(s, added) ==
    LET after == s.objs \o added
    IN  IF ConstraintsHold(after)
        THEN [s EXCEPT !.rows = after, !.objs = after]
        ELSE Closed

\* db.query(Researcher).filter(Researcher.orcid_id == orcid).first():
\* the row index, 0 for None; rows come in rowid order
QueryByOrcid(s, orcid) ==
    LET Hit(i) == s.rows[i].orcid_id = orcid
    IN  IF \E i \in 1..Len(s.rows) : Hit(i)
        THEN CHOOSE i \in 1..Len(s.rows) : Hit(i) /\ \A j \in 1..(i - 1) : ~Hit(j)
        ELSE 0

\* organization_id compared with = NULL, which no row satisfies
QueryByNameOrgNullUnequal(s, name, org_id) ==
    LET Hit(i) == /\ ILikeContains(s.rows[i].full_name, name)
                  /\ org_id # None
                  /\ s.rows[i].organization_id = org_id
    IN  IF \E i \in 1..Len(s.rows) : Hit(i)
        THEN CHOOSE i \in 1..Len(s.rows) : Hit(i) /\ \A j \in 1..(i - 1) : ~Hit(j)
        ELSE 0

\* db.query(Researcher).filter(Researcher.full_name.ilike(f"%{name}%"),
\*                             Researcher.organization_id == org_id).first()
QueryByNameOrg(s, name, org_id) ==
    LET Hit(i) == /\ ILikeContains(s.rows[i].full_name, name)
                  /\ s.rows[i].organization_id = org_id
    IN  IF \E i \in 1..Len(s.rows) : Hit(i)
        THEN CHOOSE i \in 1..Len(s.rows) : Hit(i) /\ \A j \in 1..(i - 1) : ~Hit(j)
        ELSE 0

(***************************************************************************)
(* Profile upsert: ResearcherEnricher._create_or_update_researcher.        *)
(***************************************************************************)

\* the f-string of line 240 without .lower()
NewResearcherIdKeepCase(org_id, name, orcid) ==
    IF Truthy(orcid) THEN orcid
    ELSE org_id \o ":" \o Str(ReplaceSpace(name))

\* lines 240-242
NewResearcherId(org_id, name, orcid) ==
    IF Truthy(orcid) THEN orcid
    ELSE org_id \o ":" \o Str(Lower(ReplaceSpace(name)))

\* researcher.orcid_id = orcid whatever the profile holds
BackfillAlways(orcid_id, orcid) == orcid

\* lines 234-235: if orcid and not researcher.orcid_id: researcher.orcid_id = orcid
Backfill(orcid_id, orcid) ==
    IF Truthy(orcid) /\ ~Truthy(orcid_id) THEN orcid ELSE orcid_id

\* lines 244-251: Researcher(id=..., full_name=name, orcid_id=orcid, ...)
NewResearcher(org_id, name, orcid, now) ==
    [id |-> NewResearcherId(org_id, name, orcid),
     full_name |-> name,
     orcid_id |-> orcid,
     organization_id |-> org_id,
     updated_at |-> now]

\* the outcome: the session, "created" (True), "updated" (False) or "raised",
\* and the id of the profile found or created
create_or_update_researcher(s, org_id, author_data, now) ==
    LET name == Strip(author_data.name)
        orcid == author_data.orcid
        byOrcid == IF Truthy(orcid) THEN QueryByOrcid(s, orcid) ELSE 0
        byName == QueryByNameOrg(s, name, org_id)
        created == NewResearcher(org_id, name, orcid, now)
    IN  IF ~s.active
        THEN [db |-> s, result |-> "raised", id |-> None]
        ELSE IF byOrcid # 0
        THEN [db |-> [s EXCEPT !.objs[byOrcid].updated_at = now],
              result |-> "updated", id |-> s.rows[byOrcid].id]
        ELSE IF byName # 0
        THEN [db |-> [s EXCEPT !.objs[byName].updated_at = now,
                               !.objs[byName].orcid_id = Backfill(@, orcid)],
              result |-> "updated", id |-> s.rows[byName].id]
        ELSE LET f == Flush(s, <<created>>)
             IN  [db |-> f,
                  result |-> IF f.active THEN "created" ELSE "raised",
                  id |-> IF f.active THEN created.id ELSE None]

(***************************************************************************)
(* Authorship linker: ResearcherEnricher._link_researchers_to_publications. *)
(***************************************************************************)

\* lines 285-297: the row index the linker resolves an author entry to
LinkerResolve(s, organization_id, author_data) ==
    LET author_name == Strip(author_data.name)
        orcid == author_data.orcid
        byOrcid == IF Truthy(orcid) THEN QueryByOrcid(s, orcid) ELSE 0
    IN  IF byOrcid # 0 THEN byOrcid
        ELSE IF Truthy(organization_id)
        THEN QueryByNameOrg(s, author_name, organization_id)
        ELSE 0

\* the insert of line 309 without the check of lines 302-307
LinkAuthorNoCheck(s, st, pub, author_data) ==
    LET r == LinkerResolve(s, pub.organization_id, author_data)
        row == <<pub.id, s.rows[r].id>>
    IN  IF author_data.name = NameNone
        THEN [st EXCEPT !.raised = TRUE]
        ELSE IF r # 0
        THEN [st EXCEPT !.links = Append(@, row), !.linked = @ + 1]
        ELSE st

\* lines 280-314 for one author entry; st = [links, linked, raised]:
\* None.strip() raises at line 282, an entry that resolves to no profile
\* is passed over
LinkAuthor(s, st, pub, author_data) ==
    LET r == LinkerResolve(s, pub.organization_id, author_data)
        row == <<pub.id, s.rows[r].id>>
    IN  IF author_data.name = NameNone
        THEN [st EXCEPT !.raised = TRUE]
        ELSE IF r # 0 /\ ~(\E k \in 1..Len(st.links) : st.links[k] = row)
        THEN [st EXCEPT !.links = Append(@, row), !.linked = @ + 1]
        ELSE st

\* the loop of line 280; the except of line 316 ends it, counting in the
\* local errors, which the linker reports nowhere
RECURSIVE LinkAuthors(_, _, _, _)
LinkAuthors(s, st, pub, authors) ==
    IF authors = <<>> \/ st.raised THEN st
    ELSE LinkAuthors(s, LinkAuthor(s, st, pub, Head(authors)), pub, Tail(authors))

(***************************************************************************)
(* enrich_all, step by step, and the calls around it.                      *)
(***************************************************************************)

\* the stats dict of lines 53-60; line 321 adds the key researchers_linked
NewStats ==
    [researchers_created |-> 0, researchers_updated |-> 0, authors_processed |-> 0,
     disambiguation_merges |-> 0, errors |-> 0]

\* one bucket for all organizations
BucketAppendAnyOrg(buckets, org_id, mention) ==
    IF buckets # <<>>
    THEN [buckets EXCEPT ![1].authors = Append(@, mention)]
    ELSE Append(buckets, [org_id |-> org_id, authors |-> <<mention>>])

\* authors_by_org[org_id].append(mention), the defaultdict keeping key order
BucketAppend(buckets, org_id, mention) ==
    IF \E k \in 1..Len(buckets) : buckets[k].org_id = org_id
    THEN LET k == CHOOSE k \in 1..Len(buckets) : buckets[k].org_id = org_id
         IN  [buckets EXCEPT ![k].authors = Append(@, mention)]
    ELSE Append(buckets, [org_id |-> org_id, authors |-> <<mention>>])

\* lines 80-93 for one author entry; st = [buckets, authors_processed,
\* errors, raised]: author_data.get("name", "") is None for a null name and
\* None.strip() raises
ExtractAuthor(st, pub, author_data) ==
    LET author_name == Strip(author_data.name)
    IN  IF author_data.name = NameNone
        THEN [st EXCEPT !.raised = TRUE]
        ELSE IF author_name # <<>>
        THEN [st EXCEPT
                !.buckets = BucketAppend(@, pub.organization_id,
                              [name |-> author_name,
                               orcid |-> author_data.orcid,
                               affiliation |-> author_data.affiliation,
                               publication_id |-> pub.id]),
                !.authors_processed = @ + 1]
        ELSE st

\* the loop of line 80, which an exception leaves
RECURSIVE ExtractAuthors(_, _, _)
ExtractAuthors(st, pub, authors) ==
    IF authors = <<>> \/ st.raised THEN st
    ELSE ExtractAuthors(ExtractAuthor(st, pub, Head(authors)), pub, Tail(authors))

\* lines 95-97: the exception of one publication is counted
ExtractCaught(st) ==
    IF st.raised THEN [st EXCEPT !.raised = FALSE, !.errors = @ + 1] ELSE st

\* lines 73-97
RECURSIVE ExtractPublications(_, _)
ExtractPublications(st, pubs) ==
    IF pubs = <<>> THEN st
    ELSE ExtractPublications(
            ExtractCaught(ExtractAuthors(st, Head(pubs), Head(pubs).authors)),
            Tail(pubs))

\* the mentions and counters before the loop of line 73
ExtractStart ==
    [buckets |-> <<>>, authors_processed |-> 0, errors |-> 0, raised |-> FALSE]

NoCall == [call |-> None, outcome |-> None, publication |-> <<>>,
           researcher |-> <<>>, publication_author |-> <<>>]

\* the call that starts now, as the store stands
ThisCall(c) == [call |-> c, outcome |-> "running", publication |-> publication,
                researcher |-> researcher, publication_author |-> publication_author]

Began(c) == <<hist[2], ThisCall(c)>>
Ended(outcome) == <<hist[1], [hist[2] EXCEPT !.outcome = outcome]>>

PubIds == <<"p1", "p2", "p3", "p4", "p5">>

TotalEntries ==
    LET RECURSIVE Sum(_)
        Sum(ps) == IF ps = <<>> THEN 0 ELSE Len(Head(ps).authors) + Sum(Tail(ps))
    IN  Sum(publication)

\* a harvester stores a publication with its author list
Harvest(org_id, authors) ==
    /\ pc = "idle"
    /\ Len(publication) < MaxPubs
    /\ TotalEntries + Len(authors) <= MaxEntries
    /\ publication' = Append(publication,
                             [id |-> PubIds[Len(publication) + 1],
                              organization_id |-> org_id,
                              authors |-> authors])
    /\ UNCHANGED <<researcher, publication_author, pc, fuzzy_threshold, db, stats,
                   authors_by_org, org_i, merged_authors, cluster_of, author_i,
                   pub_i, linked, call, runs, hist>>
    /\ UNCHANGED <<args, race>>

\* enrich_all, lines 52-99: open the session and collect the mentions
EnrichAllBegin ==
    /\ pc = "idle"
    /\ runs < MaxRuns
    /\ LET st == ExtractPublications(ExtractStart, publication)
       IN  /\ authors_by_org' = st.buckets
           /\ stats' = [NewStats EXCEPT !.authors_processed = st.authors_processed,
                                        !.errors = st.errors]
    /\ db' = SessionLocal
    /\ call' = "enrich_all"
    /\ runs' = runs + 1
    /\ org_i' = 1
    /\ pc' = "orgs"
    /\ hist' = Began("enrich_all")
    /\ UNCHANGED <<publication, researcher, publication_author, merged_authors,
                   cluster_of, author_i, pub_i, linked, race>>

\* enrich_all called on an enricher already constructed
Extract ==
    /\ EnrichAllBegin
    /\ UNCHANGED <<fuzzy_threshold, args>>

\* enrich_researchers(), line 332: ResearcherEnricher(fuzzy_threshold=90)
EnrichResearchersThreshold == 90

\* scripts/enrich_researchers.py, main(): parse --threshold, validate it,
\* init_db(), then stats = enrich_researchers()
Main(threshold) ==
    /\ pc = "idle"
    /\ args' = [threshold |-> threshold]
    /\ IF 0 <= threshold /\ threshold <= 100
       THEN /\ fuzzy_threshold' = EnrichResearchersThreshold
            /\ EnrichAllBegin
       ELSE UNCHANGED <<publication, researcher, publication_author, pc,
                        fuzzy_threshold, db, stats, authors_by_org, org_i,
                        merged_authors, cluster_of, author_i, pub_i, linked, call,
                        runs, hist, race>>

\* the clusters of a bucket counted as its merges
MergeCountClusters(authors, merged) == Len(merged)

\* line 107: len(authors) - len(merged_authors)
MergeCount(authors, merged) == Len(authors) - Len(merged)

\* lines 102-107: deduplicate the next bucket
Deduplicate ==
    /\ pc = "orgs"
    /\ org_i <= Len(authors_by_org)
    /\ LET authors == authors_by_org[org_i].authors
           d == deduplicate_authors(authors, fuzzy_threshold)
       IN  /\ merged_authors' = d.deduplicated
           /\ cluster_of' = d.cluster_of
           /\ stats' = [stats EXCEPT !.disambiguation_merges =
                                         @ + MergeCount(authors, d.deduplicated)]
    /\ author_i' = 1
    /\ pc' = "clusters"
    /\ UNCHANGED <<publication, researcher, publication_author, fuzzy_threshold, db,
                   authors_by_org, org_i, pub_i, linked, call, runs, hist>>
    /\ UNCHANGED <<args, race>>

\* lines 110-123: upsert the next cluster of the bucket; an exception ends
\* the bucket
CreateOrUpdate ==
    /\ pc = "clusters"
    /\ LET u == create_or_update_researcher(db, authors_by_org[org_i].org_id,
                                            merged_authors[author_i], runs)
           last == u.result = "raised" \/ author_i = Len(merged_authors)
       IN  /\ db' = u.db
           /\ stats' = CASE u.result = "created" ->
                               [stats EXCEPT !.researchers_created = @ + 1]
                         [] u.result = "updated" ->
                               [stats EXCEPT !.researchers_updated = @ + 1]
                         [] OTHER -> [stats EXCEPT !.errors = @ + 1]
           /\ author_i' = IF last THEN 1 ELSE author_i + 1
           /\ org_i' = IF last THEN org_i + 1 ELSE org_i
           /\ pc' = IF last THEN "orgs" ELSE "clusters"
    /\ UNCHANGED <<publication, researcher, publication_author, fuzzy_threshold,
                   authors_by_org, merged_authors, cluster_of, pub_i, linked, call,
                   runs, hist>>
    /\ UNCHANGED <<args, race>>

\* lines 125-127 and 267-273: the linker starts; its query raises on a session
\* whose flush has failed, which enrich_all catches at line 136
BeginLinking ==
    /\ pc = "orgs"
    /\ org_i > Len(authors_by_org)
    /\ IF db.active
       THEN /\ pc' = "link"
            /\ pub_i' = 1
            /\ linked' = 0
            /\ UNCHANGED <<db, stats, hist>>
       ELSE /\ pc' = "idle"
            /\ stats' = [stats EXCEPT !.errors = @ + 1]
            /\ db' = Closed
            /\ hist' = Ended("raised")
            /\ UNCHANGED <<pub_i, linked>>
    /\ UNCHANGED <<publication, researcher, publication_author, fuzzy_threshold,
                   authors_by_org, org_i, merged_authors, cluster_of, author_i,
                   call, runs>>
    /\ UNCHANGED <<args, race>>

\* the linker called on its own, lines 267-273
LinkerBegin ==
    /\ pc = "idle"
    /\ runs < MaxRuns
    /\ db' = SessionLocal
    /\ stats' = NewStats
    /\ call' = "link"
    /\ runs' = runs + 1
    /\ pc' = "link"
    /\ pub_i' = 1
    /\ linked' = 0
    /\ hist' = Began("link")
    /\ UNCHANGED <<publication, researcher, publication_author, fuzzy_threshold,
                   authors_by_org, org_i, merged_authors, cluster_of, author_i>>
    /\ UNCHANGED <<args, race>>

\* lines 275-318: one publication
LinkPublication ==
    /\ pc = "link"
    /\ pub_i <= Len(publication)
    /\ LET pub == publication[pub_i]
           st == LinkAuthors(db, [links |-> db.links, linked |-> linked,
                                  raised |-> FALSE], pub, pub.authors)
       IN  /\ db' = [db EXCEPT !.links = st.links]
           /\ linked' = st.linked
    /\ pub_i' = pub_i + 1
    /\ UNCHANGED <<publication, researcher, publication_author, pc, fuzzy_threshold,
                   stats, authors_by_org, org_i, merged_authors, cluster_of, author_i,
                   call, runs, hist>>
    /\ UNCHANGED <<args, race>>

\* lines 320-321 and 129-141: commit, which flushes the changed objects; a
\* failing flush raises out of the linker
LinkCommit ==
    /\ pc = "link"
    /\ pub_i > Len(publication)
    /\ LET f == Flush(db, <<>>)
       IN  IF f.active
           THEN /\ researcher' = f.rows
                /\ publication_author' = f.links
                /\ stats' = ("researchers_linked" :> linked) @@ stats
                /\ db' = [f EXCEPT !.active = FALSE]
                /\ hist' = Ended("returned")
           ELSE /\ stats' = [stats EXCEPT !.errors = @ + 1]
                /\ db' = Closed
                /\ hist' = Ended("raised")
                /\ UNCHANGED <<researcher, publication_author>>
    /\ pc' = "idle"
    /\ UNCHANGED <<publication, fuzzy_threshold, authors_by_org, org_i,
                   merged_authors, cluster_of, author_i, pub_i, linked, call, runs>>
    /\ UNCHANGED <<args, race>>

\* enrich_all on a store that cannot be queried (no table, file locked): the
\* query of line 64 raises, line 136 catches it and line 139 returns stats
QueryFails ==
    /\ pc = "idle"
    /\ runs < MaxRuns
    /\ stats' = [NewStats EXCEPT !.errors = 1]
    /\ db' = Closed
    /\ call' = "enrich_all"
    /\ runs' = runs + 1
    /\ hist' = <<hist[2], [ThisCall("enrich_all") EXCEPT !.outcome = "raised"]>>
    /\ authors_by_org' = <<>>
    /\ org_i' = 1
    /\ UNCHANGED <<publication, researcher, publication_author, pc,
                   fuzzy_threshold, merged_authors, cluster_of, author_i, pub_i,
                   linked>>
    /\ UNCHANGED <<args, race>>

\* the process running the call dies (kill, power loss) before the commit of
\* line 320: the transaction of its session, never committed, is lost
Crash ==
    /\ pc \in {"orgs", "clusters", "link"}
    /\ pc' = "idle"
    /\ db' = Closed
    /\ linked' = IF pc = "link" THEN linked ELSE 0
    /\ hist' = Ended("crashed")
    /\ UNCHANGED <<publication, researcher, publication_author, fuzzy_threshold,
                   stats, authors_by_org, org_i, merged_authors, cluster_of,
                   author_i, pub_i, call, runs>>
    /\ UNCHANGED <<args, race>>

\* the author entries the harvesters store
PipelineNames == {N_ab, N_ba}
PipelineOrcids == {None, "X"}
PipelineOrgs == {None, "O1", "O2"}
PipelineThresholds == {90}

AuthorEntries(names, orcids, affiliations) ==
    [name : names, orcid : orcids, affiliation : affiliations]

SeqsUpTo(S, lo, hi) == UNION {[1..n -> S] : n \in lo..hi}

Init ==
    /\ publication = <<>>
    /\ researcher = <<>>
    /\ publication_author = <<>>
    /\ pc = "idle"
    /\ fuzzy_threshold \in PipelineThresholds
    /\ db = Closed
    /\ stats = NewStats
    /\ authors_by_org = <<>>
    /\ org_i = 1
    /\ merged_authors = <<>>
    /\ cluster_of = <<>>
    /\ author_i = 1
    /\ pub_i = 1
    /\ linked = 0
    /\ call = None
    /\ runs = 0
    /\ hist = <<NoCall, NoCall>>
    /\ args = None
    /\ race = <<>>

Next ==
    \/ \E org_id \in PipelineOrgs :
       \E authors \in SeqsUpTo(AuthorEntries(PipelineNames, PipelineOrcids, {None}),
                               1, MaxAuthors) :
            Harvest(org_id, authors)
    \/ Extract
    \/ Deduplicate
    \/ CreateOrUpdate
    \/ BeginLinking
    \/ LinkerBegin
    \/ LinkPublication
    \/ LinkCommit
    \/ QueryFails
    \/ Crash

Spec == Init /\ [][Next]_vars

(***************************************************************************)
(* The disambiguation on its own: every mention list of one bucket, under  *)
(* every threshold of DedupThresholds.                                     *)
(***************************************************************************)

DedupThresholds == {50, 51, 90}

DedupEntries ==
    AuthorEntries({N_a, N_b, N_ab, N_baba}, {None, "X", "Y"}, {None})
        \cup AuthorEntries({N_a}, {None, "X"}, {"U", "V"})
        \cup AuthorEntries({N_ab}, {None}, {"U"})

AsMentions(entries) ==
    [i \in 1..Len(entries) |->
        [name |-> entries[i].name, orcid |-> entries[i].orcid,
         affiliation |-> entries[i].affiliation, publication_id |-> PubIds[1]]]

InitDedup ==
    /\ publication = <<>>
    /\ researcher = <<>>
    /\ publication_author = <<>>
    /\ pc = "orgs"
    /\ fuzzy_threshold \in DedupThresholds
    /\ db = SessionLocal
    /\ stats = NewStats
    /\ \E entries \in SeqsUpTo(DedupEntries, 0, MaxMentions) :
            authors_by_org = <<[org_id |-> "O1", authors |-> AsMentions(entries)]>>
    /\ org_i = 1
    /\ merged_authors = <<>>
    /\ cluster_of = <<>>
    /\ author_i = 1
    /\ pub_i = 1
    /\ linked = 0
    /\ call = "enrich_all"
    /\ runs = 1
    /\ hist = <<NoCall, NoCall>>
    /\ args = None
    /\ race = <<>>

NextDedup == Deduplicate

SpecDedup == InitDedup /\ [][NextDedup]_vars

(***************************************************************************)
(* Properties of the disambiguation (SpecDedup).                           *)
(***************************************************************************)

\* the bucket just deduplicated and what the disambiguation made of it
DedupDone == pc = "clusters"
Bucket == authors_by_org[org_i].authors
Norm(name) == Strip(Lower(name))

\* the score of line 185 for a mention name against a cluster's name
Score(mention_name, cluster_name) ==
    token_sort_ratio(Norm(mention_name), Norm(cluster_name))

\* the mention that started cluster c
FirstMember(c) ==
    CHOOSE m \in 1..Len(cluster_of) :
        cluster_of[m] = c /\ \A k \in 1..(m - 1) : cluster_of[k] # c

NoTwoClustersShareAnOrcid ==
    \A i, j \in 1..Len(merged_authors) :
        (i # j /\ merged_authors[i].orcid # None)
            => merged_authors[i].orcid # merged_authors[j].orcid

\* C4 as stated: no two clusters share a non-null identifier, and no two
\* identifier-less clusters have names that score at or above the threshold,
\* whichever of the two names is scored against the other
C4_AnyOrder ==
    DedupDone =>
        /\ NoTwoClustersShareAnOrcid
        /\ \A i, j \in 1..Len(merged_authors) :
              (i # j /\ merged_authors[i].orcid = None /\ merged_authors[j].orcid = None)
                  => Score(merged_authors[i].name, merged_authors[j].name)
                        < fuzzy_threshold

\* C4, amended: no two clusters share a non-null identifier, and of any two
\* identifier-less clusters the name of the later one scores below the
\* threshold against the name of the earlier one
C4_LaterAgainstEarlier ==
    DedupDone =>
        /\ NoTwoClustersShareAnOrcid
        /\ \A i, j \in 1..Len(merged_authors) :
              (i < j /\ merged_authors[i].orcid = None /\ merged_authors[j].orcid = None)
                  => Score(merged_authors[j].name, merged_authors[i].name)
                        < fuzzy_threshold

\* two identifier-less clusters were kept apart although the earlier name
\* scores at or above the threshold against the later one, and a third
\* mention was merged
C4_Witness ==
    /\ DedupDone
    /\ Len(merged_authors) < Len(Bucket)
    /\ \E i, j \in 1..Len(merged_authors) :
          /\ i < j
          /\ merged_authors[i].orcid = None
          /\ merged_authors[j].orcid = None
          /\ Score(merged_authors[i].name, merged_authors[j].name) >= fuzzy_threshold

\* C5: the mentions of one non-null identifier are all in one cluster, which
\* carries that identifier, and there are as many identifier-bearing clusters
\* as distinct identifiers in the input
C5_OneClusterPerOrcid ==
    DedupDone =>
        /\ Len(cluster_of) = Len(Bucket)
        /\ \A m, n \in 1..Len(Bucket) :
              (Bucket[m].orcid # None /\ Bucket[m].orcid = Bucket[n].orcid)
                  => /\ cluster_of[m] = cluster_of[n]
                     /\ merged_authors[cluster_of[m]].orcid = Bucket[m].orcid
        /\ Cardinality({i \in 1..Len(merged_authors) : merged_authors[i].orcid # None})
              = Cardinality({Bucket[m].orcid : m \in 1..Len(Bucket)} \ {None})

\* two mentions of one identifier whose names score 0, with another mention
\* between them, share a cluster
C5_Witness ==
    /\ DedupDone
    /\ Len(Bucket) = 3
    /\ Bucket[1].orcid = "X"
    /\ Bucket[3].orcid = "X"
    /\ Bucket[2].orcid = None
    /\ Score(Bucket[3].name, Bucket[1].name) = 0
    /\ cluster_of[1] = cluster_of[3]
    /\ cluster_of[2] # cluster_of[1]

\* C6: an identifier-less mention joins an earlier cluster exactly when some
\* earlier identifier-less cluster's name scores at or above the threshold,
\* and then the cluster it joins is such a cluster; so two identifier-less
\* mentions form one cluster at a score equal to the threshold and two
\* clusters one point below
C6_MergeIffAtOrAboveThreshold ==
    DedupDone =>
        /\ \A k \in 1..Len(Bucket) :
              Bucket[k].orcid = None =>
                  LET joined == FirstMember(cluster_of[k]) < k
                      Candidates ==
                          {c \in 1..Len(merged_authors) :
                              /\ FirstMember(c) < k
                              /\ merged_authors[c].orcid = None
                              /\ Score(Bucket[k].name, merged_authors[c].name)
                                    >= fuzzy_threshold}
                  IN  /\ joined <=> Candidates # {}
                      /\ joined => cluster_of[k] \in Candidates
        /\ (Len(Bucket) = 2 /\ Bucket[1].orcid = None /\ Bucket[2].orcid = None)
              => /\ Score(Bucket[2].name, Bucket[1].name) = fuzzy_threshold
                    => Len(merged_authors) = 1
                 /\ Score(Bucket[2].name, Bucket[1].name) = fuzzy_threshold - 1
                    => Len(merged_authors) = 2

\* two identifier-less mentions whose score equals the threshold were merged
C6_Witness ==
    /\ DedupDone
    /\ Len(Bucket) = 2
    /\ Bucket[1].orcid = None
    /\ Bucket[2].orcid = None
    /\ Bucket[1].name # Bucket[2].name
    /\ Score(Bucket[2].name, Bucket[1].name) = fuzzy_threshold
    /\ Len(merged_authors) = 1

\* two identifier-less mentions one point below the threshold were kept apart
C6_WitnessBelow ==
    /\ DedupDone
    /\ Len(Bucket) = 2
    /\ Bucket[1].orcid = None
    /\ Bucket[2].orcid = None
    /\ Score(Bucket[2].name, Bucket[1].name) = fuzzy_threshold - 1
    /\ Len(merged_authors) = 2

\* the tokens of a name as the matcher sees them
Tokens(name) ==
    LET ts == Split(FullProcess(Norm(name)))
    IN  {ts[i] : i \in 1..Len(ts)}

\* C19: an identifier-less mention whose tokens are all tokens of the name of
\* an earlier identifier-less cluster joins an earlier cluster, whatever its
\* token_sort_ratio against that name
C19_TokenSubsetMerges ==
    DedupDone =>
        \A k \in 1..Len(Bucket) :
            (/\ Bucket[k].orcid = None
             /\ \E c \in 1..Len(merged_authors) :
                   /\ FirstMember(c) < k
                   /\ merged_authors[c].orcid = None
                   /\ Tokens(Bucket[k].name) # {}
                   /\ Tokens(Bucket[k].name) \subseteq Tokens(merged_authors[c].name))
                => FirstMember(cluster_of[k]) < k

\* C20: an identifier-less mention joins the earliest identifier-less cluster
\* whose name scores at or above the threshold, whatever the later ones score;
\* a cluster keeps the name and identifier of its first member and takes an
\* affiliation from its own members only
C20_FirstMatchWins ==
    DedupDone =>
        /\ \A k \in 1..Len(Bucket) :
              Bucket[k].orcid = None =>
                  LET Matching ==
                          {c \in 1..Len(merged_authors) :
                              /\ FirstMember(c) < k
                              /\ merged_authors[c].orcid = None
                              /\ Score(Bucket[k].name, merged_authors[c].name)
                                    >= fuzzy_threshold}
                  IN  Matching # {}
                          => /\ cluster_of[k] \in Matching
                             /\ \A c \in Matching : cluster_of[k] <= c
        /\ \A c \in 1..Len(merged_authors) :
              /\ merged_authors[c].name = Bucket[FirstMember(c)].name
              /\ merged_authors[c].orcid = Bucket[FirstMember(c)].orcid
              /\ merged_authors[c].affiliation \in
                    {Bucket[m].affiliation :
                        m \in {m \in 1..Len(Bucket) : cluster_of[m] = c}}

\* the third mention scores at or above the threshold against both clusters
\* and higher against the second; it joined the first, which took its
\* affiliation, and the second has none
C20_Witness ==
    /\ DedupDone
    /\ Len(Bucket) = 3
    /\ \A m \in 1..3 : Bucket[m].orcid = None
    /\ cluster_of = <<1, 2, 1>>
    /\ Score(Bucket[3].name, merged_authors[1].name) >= fuzzy_threshold
    /\ Score(Bucket[3].name, merged_authors[2].name)
          > Score(Bucket[3].name, merged_authors[1].name)
    /\ Bucket[3].affiliation = "U"
    /\ merged_authors[1].affiliation = "U"
    /\ merged_authors[2].affiliation = None

\* C21: two mentions share a cluster only if they carry the same identifier
\* or both carry none, so no mention with an identifier is in a cluster with
\* one without, nor with one of another identifier, whatever the names
C21_IdentifierIsTheOnlyMergeKey ==
    DedupDone =>
        \A m, n \in 1..Len(Bucket) :
            cluster_of[m] = cluster_of[n]
                => /\ Bucket[m].orcid = Bucket[n].orcid
                   /\ merged_authors[cluster_of[m]].orcid = Bucket[m].orcid

\* three mentions of one name, with identifier X, with none and with
\* identifier Y, made three clusters at a threshold their names reach
C21_Witness ==
    /\ DedupDone
    /\ Len(Bucket) = 3
    /\ Bucket[1].name = Bucket[2].name
    /\ Bucket[2].name = Bucket[3].name
    /\ Bucket[1].orcid = "X"
    /\ Bucket[2].orcid = None
    /\ Bucket[3].orcid = "Y"
    /\ Len(merged_authors) = 3

\* the members of cluster c, and those that carry an affiliation
Members(c) == {m \in 1..Len(Bucket) : cluster_of[m] = c}
Affiliated(c) == {m \in Members(c) : Bucket[m].affiliation # None}
Earliest(S) == CHOOSE m \in S : \A n \in S : m <= n

\* C22: a cluster ends with the affiliation of its earliest member that has
\* one (none if no member has), and with the name and the identifier of its
\* first member
C22_FirstAffiliationKept ==
    DedupDone =>
        \A c \in 1..Len(merged_authors) :
            /\ Members(c) # {}
            /\ merged_authors[c].affiliation =
                  IF Affiliated(c) = {} THEN None
                  ELSE Bucket[Earliest(Affiliated(c))].affiliation
            /\ merged_authors[c].name = Bucket[Earliest(Members(c))].name
            /\ merged_authors[c].orcid = Bucket[Earliest(Members(c))].orcid

\* one cluster of three members: the first without affiliation, the second
\* with U, the third with V; the cluster ends with U
C22_Witness ==
    /\ DedupDone
    /\ Len(Bucket) = 3
    /\ Len(merged_authors) = 1
    /\ Bucket[1].affiliation = None
    /\ Bucket[2].affiliation = "U"
    /\ Bucket[3].affiliation = "V"
    /\ merged_authors[1].affiliation = "U"

(***************************************************************************)
(* Properties of the pipeline (Spec).                                      *)
(***************************************************************************)

\* the session a new call would open on the researcher rows rs
View(rs) == [rows |-> rs, objs |-> rs, links |-> <<>>, active |-> TRUE]

\* the id of the profile the linker resolves an author entry to, on rows rs
ResolvedId(rs, organization_id, author_data) ==
    LET r == LinkerResolve(View(rs), organization_id, author_data)
    IN  IF r = 0 THEN None ELSE rs[r].id

HasName(author_data) == Strip(author_data.name) # <<>>

Rows(table) == {table[k] : k \in 1..Len(table)}

\* the last call and the one before it
LastCall == hist[2]
CallBefore == hist[1]
EnrichReturned ==
    pc = "idle" /\ LastCall.call = "enrich_all" /\ LastCall.outcome = "returned"

\* C1: a second enrich_all on the publications of the first, both returning
\* by line 134, from the store the first left, adds no profile and no link,
\* and every mention resolves to the profile it resolved to after the first
C1_SecondRunAddsNothing ==
    (/\ pc = "idle"
     /\ CallBefore.call = "enrich_all"
     /\ CallBefore.outcome = "returned"
     /\ LastCall.call = "enrich_all"
     /\ LastCall.outcome = "returned"
     /\ CallBefore.publication = LastCall.publication)
        => /\ Len(researcher) = Len(LastCall.researcher)
           /\ Len(publication_author) = Len(LastCall.publication_author)
           /\ \A i \in 1..Len(LastCall.publication) :
                 LET pub == LastCall.publication[i]
                 IN  \A k \in 1..Len(pub.authors) :
                        HasName(pub.authors[k]) =>
                            ResolvedId(researcher, pub.organization_id, pub.authors[k])
                                = ResolvedId(LastCall.researcher, pub.organization_id,
                                             pub.authors[k])

\* C2: after an enrich_all that counted no error, every author entry with a
\* name resolves to a profile and its publication is linked to that profile
C2_EveryMentionLinked ==
    (EnrichReturned /\ stats.errors = 0)
        => \A i \in 1..Len(LastCall.publication) :
              LET pub == LastCall.publication[i]
              IN  \A k \in 1..Len(pub.authors) :
                     HasName(pub.authors[k]) =>
                        LET id == ResolvedId(researcher, pub.organization_id,
                                             pub.authors[k])
                        IN  /\ id # None
                            /\ <<pub.id, id>> \in Rows(publication_author)

PubOrg(publication_id) ==
    LET i == CHOOSE i \in 1..Len(publication) : publication[i].id = publication_id
    IN  publication[i].organization_id

\* C7: every bucket holds the mentions of one organization context only, and
\* the clusters of a bucket are made of that bucket's mentions alone, so two
\* mentions of different contexts are never in one cluster
C7_NoClusterAcrossOrganizations ==
    (call = "enrich_all" /\ pc \in {"orgs", "clusters"})
        => /\ \A k \in 1..Len(authors_by_org) :
                 /\ \A m \in 1..Len(authors_by_org[k].authors) :
                       PubOrg(authors_by_org[k].authors[m].publication_id)
                           = authors_by_org[k].org_id
                 /\ \A l \in 1..Len(authors_by_org) :
                       l # k => authors_by_org[l].org_id # authors_by_org[k].org_id
           /\ pc = "clusters"
                 => /\ Len(cluster_of) = Len(Bucket)
                    /\ \A m \in 1..Len(Bucket) : cluster_of[m] \in 1..Len(merged_authors)
                    /\ \A c \in 1..Len(merged_authors) :
                          PubOrg(merged_authors[c].publication_id)
                              = authors_by_org[org_i].org_id

\* the second bucket is deduplicated, one of the two is the bucket of no
\* organization, and both hold an identifier-less mention of the same name
C7_Witness ==
    /\ call = "enrich_all"
    /\ pc = "clusters"
    /\ org_i = 2
    /\ None \in {authors_by_org[1].org_id, authors_by_org[2].org_id}
    /\ \E m \in 1..Len(authors_by_org[1].authors) :
       \E n \in 1..Len(authors_by_org[2].authors) :
          /\ authors_by_org[1].authors[m].name = authors_by_org[2].authors[n].name
          /\ authors_by_org[1].authors[m].orcid = None
          /\ authors_by_org[2].authors[n].orcid = None

NoDuplicateRows(table) ==
    \A i, j \in 1..Len(table) : i # j => table[i] # table[j]

\* C8: neither the link table nor the links of the running session hold a
\* (publication_id, researcher_id) pair twice
C8_NoDuplicateLinks ==
    /\ NoDuplicateRows(publication_author)
    /\ NoDuplicateRows(db.links)

\* two author entries of one publication resolved to one profile, the call
\* returned, and the linker has run twice
C8_Witness ==
    /\ EnrichReturned
    /\ runs = 2
    /\ CallBefore.outcome = "returned"
    /\ \E i \in 1..Len(LastCall.publication) :
          LET pub == LastCall.publication[i]
          IN  /\ Len(pub.authors) = 2
              /\ ResolvedId(researcher, pub.organization_id, pub.authors[1]) # None
              /\ ResolvedId(researcher, pub.organization_id, pub.authors[1])
                    = ResolvedId(researcher, pub.organization_id, pub.authors[2])
              /\ <<pub.id, ResolvedId(researcher, pub.organization_id, pub.authors[1])>>
                    \in Rows(publication_author)

NoTwoRowsShareAnOrcid(rs) ==
    \A i, j \in 1..Len(rs) :
        (i # j /\ rs[i].orcid_id # None) => rs[i].orcid_id # rs[j].orcid_id

\* C10: no two rows of the researcher table, committed or flushed in the
\* running transaction, carry the same non-null orcid_id
C10_OrcidUniqueInStore ==
    /\ NoTwoRowsShareAnOrcid(researcher)
    /\ NoTwoRowsShareAnOrcid(db.rows)

\* an identifier was backfilled onto a profile found by name and
\* organization, and a cluster of another organization with that identifier
\* was upserted afterwards
C10_Witness ==
    /\ EnrichReturned
    /\ \E r \in 1..Len(researcher) :
          /\ researcher[r].orcid_id = "X"
          /\ researcher[r].id # "X"
          /\ \E i \in 1..Len(LastCall.publication) :
                LET pub == LastCall.publication[i]
                IN  /\ pub.organization_id # researcher[r].organization_id
                    /\ \E k \in 1..Len(pub.authors) : pub.authors[k].orcid = "X"

\* C9: a linker call after one publication was added, whose one author entry
\* carries the identifier of an existing profile, inserts the one row
\* (new publication, that profile), reports 1 and leaves the other rows alone
C9_RelinkAddsOneLink ==
    LET before == CallBefore.publication
        now == LastCall.publication
        new == now[Len(now)]
    IN  (/\ pc = "idle"
         /\ LastCall.call = "link"
         /\ LastCall.outcome = "returned"
         /\ CallBefore.call \in {"enrich_all", "link"}
         /\ CallBefore.outcome = "returned"
         /\ Len(now) = Len(before) + 1
         /\ Len(new.authors) = 1
         /\ new.authors[1].orcid # None
         /\ QueryByOrcid(View(LastCall.researcher), new.authors[1].orcid) # 0)
            => /\ publication_author =
                    Append(LastCall.publication_author,
                           <<new.id,
                             ResolvedId(LastCall.researcher, new.organization_id,
                                        new.authors[1])>>)
               /\ stats.researchers_linked = 1

\* C11: after a call that was interrupted, the store holds every profile the
\* call had created (each upsert that returned True) and every link it had
\* inserted before the interruption
C11_CompletedWorkSurvivesCrash ==
    (pc = "idle" /\ LastCall.outcome = "crashed")
        => /\ Len(researcher) >=
                 Len(LastCall.researcher)
                    + (IF LastCall.call = "enrich_all" THEN stats.researchers_created
                       ELSE 0)
           /\ Len(publication_author) >= Len(LastCall.publication_author) + linked

\* the clusters the loop of lines 102-110 has to upsert, over all buckets
TotalClusters ==
    LET RECURSIVE Sum(_)
        Sum(buckets) ==
            IF buckets = <<>> THEN 0
            ELSE Len(deduplicate_authors(Head(buckets).authors,
                                         fuzzy_threshold).deduplicated)
                    + Sum(Tail(buckets))
    IN  Sum(authors_by_org)

\* enrich_all has come back to its caller, by line 134 or by line 139
EnrichEnded ==
    /\ pc = "idle"
    /\ LastCall.call = "enrich_all"
    /\ LastCall.outcome \in {"returned", "raised"}

\* C12: when enrich_all ends, every cluster was upserted except one per
\* counted error, and the linker has run
C12_FailureSkipsOneCluster ==
    EnrichEnded
        => /\ stats.researchers_created + stats.researchers_updated
                 = TotalClusters - stats.errors
           /\ "researchers_linked" \in DOMAIN stats

\* the counters of the run summary
SummaryKeys ==
    {"authors_processed", "researchers_created", "researchers_updated",
     "disambiguation_merges", "researchers_linked", "errors"}

\* C13: the summary enrich_all returns, by line 134 or by the fatal branch of
\* line 139, carries every counter: mentions processed, profiles created,
\* profiles updated, merges, links created and errors
C13_SummaryCarriesAllCounters ==
    EnrichEnded => SummaryKeys \subseteq DOMAIN stats

\* rows after keeps every row of before, in place, with its id, full_name and
\* organization_id, and with its orcid_id unless that was null
ProfilesKept(before, after) ==
    /\ Len(after) >= Len(before)
    /\ \A i \in 1..Len(before) :
          /\ after[i].id = before[i].id
          /\ after[i].full_name = before[i].full_name
          /\ after[i].organization_id = before[i].organization_id
          /\ before[i].orcid_id # None => after[i].orcid_id = before[i].orcid_id

LinksKept(before, after) ==
    /\ Len(after) >= Len(before)
    /\ SubSeq(after, 1, Len(before)) = before

\* C16: no step of any call removes a profile or a link row, from the tables
\* or from the running transaction, or changes the id, full_name or
\* organization_id of a profile, or replaces a non-null orcid_id
C16_ProfilesAndLinksOnlyGrow ==
    [][/\ ProfilesKept(researcher, researcher')
       /\ LinksKept(publication_author, publication_author')
       /\ (db.active /\ db'.active)
             => /\ ProfilesKept(db.objs, db'.objs)
                /\ LinksKept(db.links, db'.links)]_vars

\* a second run returned: it backfilled the identifier of a profile the
\* first run had created, bumped its updated_at, and added a link
C16_Witness ==
    /\ EnrichReturned
    /\ runs = 2
    /\ CallBefore.outcome = "returned"
    /\ Len(publication_author) > Len(LastCall.publication_author)
    /\ \E i \in 1..Len(LastCall.researcher) :
          /\ LastCall.researcher[i].orcid_id = None
          /\ researcher[i].orcid_id = "X"
          /\ researcher[i].updated_at = 2

\* the linker has been through every publication and is about to commit
LinkerDone == pc = "link" /\ pub_i > Len(publication)

\* the author entries the linker resolved to no profile
UnresolvedEntries ==
    {e \in {<<i, k>> : i \in 1..Len(publication), k \in 1..MaxAuthors} :
        /\ e[2] <= Len(publication[e[1]].authors)
        /\ LinkerResolve(db, publication[e[1]].organization_id,
                         publication[e[1]].authors[e[2]]) = 0}

\* C17: when the linker has gone through the publications, the errors of the
\* run summary count at least one error for each author entry it resolved
\* to no profile
C17_UnresolvedCountedAsErrors ==
    LinkerDone => stats.errors >= Cardinality(UnresolvedEntries)

(***************************************************************************)
(* The extraction on its own: enrich_all started on every store of up to   *)
(* MaxPubs publications whose author entries have a name, an empty or      *)
(* absent name, or a null name.                                            *)
(***************************************************************************)

ExtractNames == {N_a, N_ab, <<>>, NameNone}
ExtractOrgs == {None, "O1"}

ExtractStores ==
    {[i \in 1..Len(ps) |->
        [id |-> PubIds[i], organization_id |-> ps[i][1], authors |-> ps[i][2]]] :
        ps \in SeqsUpTo(ExtractOrgs \X
                            SeqsUpTo(AuthorEntries(ExtractNames, {None}, {None}),
                                     1, MaxAuthors),
                        1, MaxPubs)}

InitExtract ==
    /\ publication \in ExtractStores
    /\ researcher = <<>>
    /\ publication_author = <<>>
    /\ pc = "idle"
    /\ fuzzy_threshold \in PipelineThresholds
    /\ db = Closed
    /\ stats = NewStats
    /\ authors_by_org = <<>>
    /\ org_i = 1
    /\ merged_authors = <<>>
    /\ cluster_of = <<>>
    /\ author_i = 1
    /\ pub_i = 1
    /\ linked = 0
    /\ call = None
    /\ runs = 0
    /\ hist = <<NoCall, NoCall>>
    /\ args = None
    /\ race = <<>>

NextExtract == Extract

SpecExtract == InitExtract /\ [][NextExtract]_vars

\* the entry carries a name that is not empty
Named(author_data) ==
    author_data.name # NameNone /\ Strip(author_data.name) # <<>>

\* the mentions of the named entries of the publications of org_id, in
\* publication-then-entry order
RECURSIVE NamedEntries(_, _, _)
NamedEntries(pub, authors, org_id) ==
    IF authors = <<>> THEN <<>>
    ELSE (IF pub.organization_id = org_id /\ Named(Head(authors))
          THEN <<[name |-> Strip(Head(authors).name),
                  orcid |-> Head(authors).orcid,
                  affiliation |-> Head(authors).affiliation,
                  publication_id |-> pub.id]>>
          ELSE <<>>) \o NamedEntries(pub, Tail(authors), org_id)

RECURSIVE NamedMentions(_, _)
NamedMentions(pubs, org_id) ==
    IF pubs = <<>> THEN <<>>
    ELSE NamedEntries(Head(pubs), Head(pubs).authors, org_id)
            \o NamedMentions(Tail(pubs), org_id)

\* the mentions the extraction put in the bucket of org_id
BucketOf(org_id) ==
    IF \E k \in 1..Len(authors_by_org) : authors_by_org[k].org_id = org_id
    THEN authors_by_org[CHOOSE k \in 1..Len(authors_by_org) :
                            authors_by_org[k].org_id = org_id].authors
    ELSE <<>>

\* C18: after the extraction the bucket of every organization, the null one
\* included, holds one mention for each entry with a non-empty name on the
\* publications of that organization, in publication-then-entry order, and
\* authors_processed counts them
C18_EveryNamedEntryOneMention ==
    (pc = "orgs" /\ call = "enrich_all")
        => /\ \A org_id \in ExtractOrgs \cup PipelineOrgs :
                 BucketOf(org_id) = NamedMentions(publication, org_id)
           /\ stats.authors_processed =
                 Cardinality({e \in {<<i, k>> : i \in 1..Len(publication),
                                                k \in 1..MaxAuthors} :
                                /\ e[2] <= Len(publication[e[1]].authors)
                                /\ Named(publication[e[1]].authors[e[2]])})

(***************************************************************************)
(* The enrichment command: scripts/enrich_researchers.py run with every    *)
(* --threshold of CommandThresholds on every store of CommandStores.       *)
(***************************************************************************)

CommandThresholds == {50, 90, 101}

CommandStores ==
    {<<[id |-> PubIds[1], organization_id |-> "O1", authors |-> authors]>> :
        authors \in SeqsUpTo(AuthorEntries({N_a, N_b, N_ab, N_baba}, {None, "X"},
                                           {None}), 1, MaxAuthors)}

InitCommand ==
    /\ publication \in CommandStores
    /\ researcher = <<>>
    /\ publication_author = <<>>
    /\ pc = "idle"
    /\ fuzzy_threshold = EnrichResearchersThreshold
    /\ db = Closed
    /\ stats = NewStats
    /\ authors_by_org = <<>>
    /\ org_i = 1
    /\ merged_authors = <<>>
    /\ cluster_of = <<>>
    /\ author_i = 1
    /\ pub_i = 1
    /\ linked = 0
    /\ call = None
    /\ runs = 0
    /\ hist = <<NoCall, NoCall>>
    /\ args = None
    /\ race = <<>>

NextCommand ==
    \/ \E threshold \in CommandThresholds : Main(threshold)
    \/ Deduplicate
    \/ CreateOrUpdate
    \/ BeginLinking
    \/ LinkPublication
    \/ LinkCommit

SpecCommand == InitCommand /\ [][NextCommand]_vars

\* C14: in a run of the command, the clusters of every bucket are the ones
\* the disambiguation makes at the threshold passed to the command
C14_CommandThresholdDecidesMerges ==
    DedupDone =>
        merged_authors = deduplicate_authors(Bucket, args.threshold).deduplicated

(***************************************************************************)
(* The profile upsert on its own: one cluster upserted twice in a row,     *)
(* on every store of up to MaxRows profiles.                               *)
(***************************************************************************)

UpsertNames == {N_a, N_ab, N_Ab, N_a_b}
UpsertOrgs == {None, "O1"}

\* a profile as an earlier call, or the ORCID enrichment, can have left it
StoredProfiles ==
    {[id |-> id, full_name |-> name, orcid_id |-> orcid, organization_id |-> org_id,
      updated_at |-> 0] :
        <<name, org_id, orcid, id>> \in
            {t \in UpsertNames \X UpsertOrgs \X ({None} \cup Orcids)
                        \X ({NewResearcherId(o, n, None) :
                                <<o, n>> \in UpsertOrgs \X UpsertNames} \cup Orcids) :
                \/ t[4] = NewResearcherId(t[2], t[1], None)
                \/ t[4] = t[3]}}

InitUpsert ==
    /\ publication = <<>>
    /\ researcher \in {rs \in SeqsUpTo(StoredProfiles, 0, MaxRows) : ConstraintsHold(rs)}
    /\ publication_author = <<>>
    /\ pc = "clusters"
    /\ fuzzy_threshold \in PipelineThresholds
    /\ db = SessionLocal
    /\ stats = NewStats
    /\ \E org_id \in UpsertOrgs :
       \E entry \in AuthorEntries(UpsertNames, {None} \cup Orcids, {None}) :
          /\ authors_by_org = <<[org_id |-> org_id,
                                 authors |-> AsMentions(<<entry, entry>>)]>>
          /\ merged_authors = AsMentions(<<entry, entry>>)
    /\ org_i = 1
    /\ cluster_of = <<1, 2>>
    /\ author_i = 1
    /\ pub_i = 1
    /\ linked = 0
    /\ call = "enrich_all"
    /\ runs = 1
    /\ hist = <<NoCall, NoCall>>
    /\ args = None
    /\ race = <<>>

NextUpsert == CreateOrUpdate

SpecUpsert == InitUpsert /\ [][NextUpsert]_vars

\* the ids of the profiles the calls of this run found or created
Touched(s) == {s.objs[i].id : i \in {i \in 1..Len(s.objs) : s.objs[i].updated_at = runs}}

\* C3: after a first call that returned, the second call with the same cluster
\* and organization returns False, adds no profile, and finds the profile
\* the first call found or created
C3_SecondUpsertUpdatesSameProfile ==
    [][(pc = "clusters" /\ author_i = 2)
          => /\ Cardinality(Touched(db)) = 1
             /\ stats.researchers_created + stats.researchers_updated = 1
             /\ stats'.researchers_updated = stats.researchers_updated + 1
             /\ stats'.researchers_created = stats.researchers_created
             /\ stats'.errors = stats.errors
             /\ Len(db'.objs) = Len(db.objs)
             /\ Len(db'.rows) = Len(db.rows)
             /\ Touched(db') = Touched(db)]_vars

\* both calls were made on a store that held other profiles: the first
\* created a profile, the second found it
C3_Witness ==
    /\ pc = "orgs"
    /\ org_i = 2
    /\ Len(researcher) = 2
    /\ stats.researchers_created = 1
    /\ stats.researchers_updated = 1
    /\ Len(db.rows) = 3
    /\ Touched(db) = {db.rows[3].id}

\* the cluster the loop of line 110 is at, and the organization of its bucket
Cluster == merged_authors[author_i]
ClusterOrg == authors_by_org[org_i].org_id

\* the id of the profile the lookups of lines 216-230 find for a cluster in
\* session s, None if they find none
UpsertFinds(s, org_id, author_data) ==
    LET u == create_or_update_researcher(s, org_id, author_data, runs)
    IN  IF u.result = "updated" THEN u.id ELSE None

\* the id of the profile the lookups of lines 285-297 find for an author
\* entry in session s, None if they find none
LinkerFinds(s, organization_id, author_data) ==
    LET r == LinkerResolve(s, organization_id, author_data)
    IN  IF r = 0 THEN None ELSE s.rows[r].id

\* C23: on every store and in every transaction, for a mention of any name,
\* identifier and organization (none included), the linker resolves the
\* profile that the upsert lookup finds
C23_LinkerResolvesAsUpsert ==
    (pc = "clusters" /\ db.active)
        => LinkerFinds(db, ClusterOrg, Cluster) = UpsertFinds(db, ClusterOrg, Cluster)

\* C24: the profile a creating upsert adds carries the cluster's identifier
\* as id if the cluster has one, and otherwise the id synthesized for any
\* name of the same normalized form in the same organization, on every store
C24_CreatedIdIsDeterministic ==
    [][(pc = "clusters" /\ stats'.researchers_created = stats.researchers_created + 1)
          => /\ Len(db'.objs) = Len(db.objs) + 1
             /\ LET new == db'.objs[Len(db'.objs)]
                IN  /\ Cluster.orcid # None => new.id = Cluster.orcid
                    /\ Cluster.orcid = None =>
                          \A name \in UpsertNames :
                              Norm(name) = Norm(Cluster.name)
                                  => new.id = NewResearcherId(ClusterOrg, Strip(name),
                                                              None)]_vars

\* on a store that held a profile, a cluster without identifier whose name
\* has a capital was created under the slug of the lower-case name
C24_Witness ==
    /\ pc = "clusters"
    /\ author_i = 2
    /\ stats.researchers_created = 1
    /\ Len(researcher) >= 1
    /\ merged_authors[1].name = N_Ab
    /\ merged_authors[1].orcid = None
    /\ ClusterOrg = "O1"
    /\ db.objs[Len(db.objs)].id = "O1:a_b"

(***************************************************************************)
(* Two enrichment runs, each a process with its own connection to the      *)
(* SQLite file, upserting the same cluster at the same time.  A run sees   *)
(* the committed rows; its INSERT takes the write lock of the file, which  *)
(* it keeps until its commit; a statement that needs the lock while the    *)
(* other run holds it ends in "database is locked".                        *)
(***************************************************************************)

Runs == {1, 2}
Other(r) == 3 - r

\* run r has flushed an INSERT and not committed yet
HoldsLock(r) == race[r].pc = "commit" /\ race[r].added # <<>>

RaceCluster == merged_authors[1]
RaceOrg == authors_by_org[1].org_id

\* rs with the row of d's id replaced by d
WithRow(rs, d) == [i \in 1..Len(rs) |-> IF rs[i].id = d.id THEN d ELSE rs[i]]

\* lines 216-237: the two queries, and the update of the profile found
RaceLookup(r) ==
    /\ race[r].pc = "lookup"
    /\ LET u == create_or_update_researcher(View(researcher), RaceOrg, RaceCluster,
                                            runs)
           k == CHOOSE k \in 1..Len(researcher) : researcher[k].id = u.id
       IN  race' = [race EXCEPT ![r] =
                       IF u.result = "updated"
                       THEN [@ EXCEPT !.pc = "commit", !.result = "updated",
                                      !.dirty = <<u.db.objs[k]>>]
                       ELSE [@ EXCEPT !.pc = "insert", !.missed = TRUE]]
    /\ UNCHANGED <<publication, researcher, publication_author, pc, fuzzy_threshold,
                   db, stats, authors_by_org, org_i, merged_authors, cluster_of,
                   author_i, pub_i, linked, call, runs, hist, args>>

\* lines 239-254: db.add(researcher); db.flush()
RaceInsert(r) ==
    /\ race[r].pc = "insert"
    /\ LET new == NewResearcher(RaceOrg, Strip(RaceCluster.name), RaceCluster.orcid,
                                runs)
           accepted == /\ ~HoldsLock(Other(r))
                       /\ ConstraintsHold(Append(researcher, new))
       IN  race' = [race EXCEPT ![r] =
                       IF accepted
                       THEN [@ EXCEPT !.pc = "commit", !.result = "created",
                                      !.added = <<new>>]
                       ELSE [@ EXCEPT !.pc = "done", !.result = "raised"]]
    /\ UNCHANGED <<publication, researcher, publication_author, pc, fuzzy_threshold,
                   db, stats, authors_by_org, org_i, merged_authors, cluster_of,
                   author_i, pub_i, linked, call, runs, hist, args>>

\* line 320: db.commit(), which first flushes the changed objects
RaceCommit(r) ==
    /\ race[r].pc = "commit"
    /\ LET after == IF race[r].dirty # <<>>
                    THEN WithRow(researcher, race[r].dirty[1])
                    ELSE researcher \o race[r].added
           accepted == ~HoldsLock(Other(r)) /\ ConstraintsHold(after)
       IN  /\ researcher' = IF accepted THEN after ELSE researcher
           /\ race' = [race EXCEPT ![r] =
                          [@ EXCEPT !.pc = "done",
                                    !.result = IF accepted THEN @ ELSE "raised",
                                    !.committed = accepted]]
    /\ UNCHANGED <<publication, publication_author, pc, fuzzy_threshold, db, stats,
                   authors_by_org, org_i, merged_authors, cluster_of, author_i,
                   pub_i, linked, call, runs, hist, args>>

RaceStart ==
    [pc |-> "lookup", missed |-> FALSE, result |-> None, dirty |-> <<>>,
     added |-> <<>>, committed |-> FALSE]

InitRace ==
    /\ publication = <<>>
    /\ researcher \in {rs \in SeqsUpTo(StoredProfiles, 0, 1) : ConstraintsHold(rs)}
    /\ publication_author = <<>>
    /\ pc = "clusters"
    /\ fuzzy_threshold \in PipelineThresholds
    /\ db = Closed
    /\ stats = NewStats
    /\ \E org_id \in UpsertOrgs :
       \E entry \in AuthorEntries(UpsertNames, {None} \cup Orcids, {None}) :
          /\ authors_by_org = <<[org_id |-> org_id, authors |-> AsMentions(<<entry>>)]>>
          /\ merged_authors = AsMentions(<<entry>>)
    /\ org_i = 1
    /\ cluster_of = <<1>>
    /\ author_i = 1
    /\ pub_i = 1
    /\ linked = 0
    /\ call = "enrich_all"
    /\ runs = 1
    /\ hist = <<NoCall, NoCall>>
    /\ args = None
    /\ race = [r \in Runs |-> RaceStart]

NextRace == \E r \in Runs : RaceLookup(r) \/ RaceInsert(r) \/ RaceCommit(r)

SpecRace == InitRace /\ [][NextRace]_vars

\* both runs failed to find a profile for the cluster and both went through
\* the insert of lines 253-254
BothMissedAndInserted ==
    \A r \in Runs : race[r].missed /\ race[r].pc \in {"commit", "done"}

C27_IdentifierClusterHasItsProfile ==
    [][(pc = "clusters" /\ Truthy(Cluster.orcid) /\ stats'.errors = stats.errors)
          => \E i \in 1..Len(db'.objs) :
                /\ db'.objs[i].orcid_id = Cluster.orcid
                /\ db'.objs[i].updated_at = runs]_vars

(***************************************************************************)
(* The linker on its own: _link_researchers_to_publications on every store *)
(* of up to one profile and one publication whose author entries have a    *)
(* name, an empty or absent name, or a null name.                          *)
(***************************************************************************)

LinkNames == {N_ab, <<>>, NameNone}

LinkPublications ==
    {<<[id |-> PubIds[1], organization_id |-> org_id, authors |-> authors]>> :
        <<org_id, authors>> \in
            UpsertOrgs \X SeqsUpTo(AuthorEntries(LinkNames, {None, "X"}, {None}),
                                   1, MaxAuthors)}

InitLink ==
    /\ publication \in LinkPublications
    /\ researcher \in {rs \in SeqsUpTo(StoredProfiles, 0, 1) : ConstraintsHold(rs)}
    /\ publication_author = <<>>
    /\ pc = "idle"
    /\ fuzzy_threshold \in PipelineThresholds
    /\ db = Closed
    /\ stats = NewStats
    /\ authors_by_org = <<>>
    /\ org_i = 1
    /\ merged_authors = <<>>
    /\ cluster_of = <<>>
    /\ author_i = 1
    /\ pub_i = 1
    /\ linked = 0
    /\ call = None
    /\ runs = 0
    /\ hist = <<NoCall, NoCall>>
    /\ args = None
    /\ race = <<>>

NextLink == LinkerBegin \/ LinkPublication \/ LinkCommit

SpecLink == InitLink /\ [][NextLink]_vars

\* the id of the profile that carries the entry's identifier, None if the
\* entry has no identifier or no profile carries it
FoundByOrcid(s, author_data) ==
    LET r == IF Truthy(author_data.orcid) THEN QueryByOrcid(s, author_data.orcid)
             ELSE 0
    IN  IF r = 0 THEN None ELSE s.rows[r].id

\* the profile an entry is to be linked to: the one the lookups find for a
\* named entry, the one of its identifier for an entry without usable name
LinkTarget(s, pub, author_data) ==
    IF Named(author_data) THEN LinkerFinds(s, pub.organization_id, author_data)
    ELSE FoundByOrcid(s, author_data)

\* C25: when the linker has gone through the publications, the links are
\* those of the named entries that resolve and of the entries resolved by
\* their identifier: an entry without usable name and without resolving
\* identifier adds no link and takes none away from the other entries
C25_NamelessEntrySkippedByLinker ==
    LinkerDone =>
        Rows(db.links) =
            {<<publication[e[1]].id,
               LinkTarget(db, publication[e[1]], publication[e[1]].authors[e[2]])>> :
                e \in {e \in {<<i, k>> : i \in 1..Len(publication),
                                          k \in 1..MaxAuthors} :
                          /\ e[2] <= Len(publication[e[1]].authors)
                          /\ LinkTarget(db, publication[e[1]],
                                        publication[e[1]].authors[e[2]]) # None}}

(***************************************************************************)
(* The organization loop of enrich_all, lines 102-123, as a function of    *)
(* the order in which the buckets are taken.                               *)
(***************************************************************************)

RECURSIVE UpsertClusters(_, _, _, _, _)
\* lines 110-117 from cluster k on: an exception leaves the loop
UpsertClusters(s, org_id, merged, k, now) ==
    IF k > Len(merged) THEN s
    ELSE LET u == create_or_update_researcher(s, org_id, merged[k], now)
         IN  IF u.result = "raised" THEN u.db
             ELSE UpsertClusters(u.db, org_id, merged, k + 1, now)

RECURSIVE UpsertBuckets(_, _, _, _, _)
\* lines 102-123 from bucket k on
UpsertBuckets(s, buckets, threshold, k, now) ==
    IF k > Len(buckets) THEN s
    ELSE LET d == deduplicate_authors(buckets[k].authors, threshold)
         IN  UpsertBuckets(UpsertClusters(s, buckets[k].org_id, d.deduplicated,
                                          1, now),
                           buckets, threshold, k + 1, now)

\* the orders a sequence can be taken in
Orders(n) ==
    {f \in [1..n -> 1..n] : \A i, j \in 1..n : f[i] = f[j] => i = j}

\* the profiles a session holds: the objects as the commit of line 320 writes
\* them, the committed rows when the session has failed
Profiles(s) ==
    LET kept == IF s.active THEN s.objs ELSE researcher
    IN  {[id |-> kept[i].id, orcid_id |-> kept[i].orcid_id,
          organization_id |-> kept[i].organization_id] : i \in 1..Len(kept)}

\* C26: taking the buckets of the organizations in any order yields the same
\* profiles, with the same ids, identifiers and organization ids, as taking
\* them in the order of the extraction
C26_BucketOrderIrrelevant ==
    (pc = "orgs" /\ org_i = 1 /\ db.active) =>
        \A f \in Orders(Len(authors_by_org)) :
            Profiles(UpsertBuckets(db, [k \in 1..Len(authors_by_org) |->
                                            authors_by_org[f[k]]],
                                   fuzzy_threshold, 1, runs))
                = Profiles(UpsertBuckets(db, authors_by_org, fuzzy_threshold, 1, runs))

\* the profile the linker has linked a mention's publication to for that
\* mention, None if it linked none
LinkedProfile(s, org_id, mention) ==
    LET id == LinkerFinds(s, org_id, mention)
    IN  IF id # None /\ <<mention.publication_id, id>> \in Rows(s.links)
        THEN id ELSE None

\* C28: when the linker of an enrich_all has gone through the publications,
\* two mentions of a bucket that the disambiguation put into one cluster are
\* not linked to two different profiles
C28_ClusterLinkedToOneProfile ==
    (LinkerDone /\ call = "enrich_all") =>
        \A b \in 1..Len(authors_by_org) :
            LET authors == authors_by_org[b].authors
                org_id == authors_by_org[b].org_id
                d == deduplicate_authors(authors, fuzzy_threshold)
            IN  \A m, n \in 1..Len(authors) :
                    (/\ d.cluster_of[m] = d.cluster_of[n]
                     /\ LinkedProfile(db, org_id, authors[m]) # None
                     /\ LinkedProfile(db, org_id, authors[n]) # None)
                        => LinkedProfile(db, org_id, authors[m])
                               = LinkedProfile(db, org_id, authors[n])

(***************************************************************************)
(* Two runs of the linker on one store, each in a process and a session of *)
(* its own: a SELECT sees the committed links and the run's own inserts,   *)
(* an INSERT takes the write lock of the database file until the commit of *)
(* line 320, and publication_author has no key that would refuse a row.    *)
(***************************************************************************)

LinkRaceNames == {N_a, N_ab}

LinkRacePublications ==
    {<<[id |-> PubIds[1], organization_id |-> org_id, authors |-> authors]>> :
        <<org_id, authors>> \in
            UpsertOrgs \X SeqsUpTo(AuthorEntries(LinkRaceNames, {None, "X"}, {None}),
                                   1, MaxAuthors)}

\* run r has executed an INSERT and not committed yet
LinkHoldsLock(r) == race[r].pc # "done" /\ race[r].added # <<>>

\* the position of run r after author entry k of the publication
AfterEntry(r, k) ==
    IF k < Len(publication[1].authors)
    THEN [race[r] EXCEPT !.pc = "check", !.k = k + 1, !.target = None]
    ELSE [race[r] EXCEPT !.pc = "commit", !.target = None]

\* lines 282-307: resolve the entry, then look for its link
LinkRaceCheck(r) ==
    /\ race[r].pc = "check"
    /\ LET pub == publication[1]
           id == LinkerFinds(View(researcher), pub.organization_id,
                             pub.authors[race[r].k])
           existing == <<pub.id, id>> \in Rows(publication_author \o race[r].added)
       IN  race' = [race EXCEPT ![r] =
                       IF id = None \/ existing
                       THEN AfterEntry(r, race[r].k)
                       ELSE [@ EXCEPT !.pc = "insert", !.target = id]]
    /\ UNCHANGED <<publication, researcher, publication_author, pc, fuzzy_threshold,
                   db, stats, authors_by_org, org_i, merged_authors, cluster_of,
                   author_i, pub_i, linked, call, runs, hist, args>>

\* lines 309-318: the insert; refused while the other run holds the write
\* lock, which the except of line 316 catches for the publication
LinkRaceInsert(r) ==
    /\ race[r].pc = "insert"
    /\ race' = [race EXCEPT ![r] =
                   IF LinkHoldsLock(Other(r))
                   THEN [@ EXCEPT !.pc = "commit", !.target = None,
                                  !.errors = @ + 1]
                   ELSE [AfterEntry(r, race[r].k) EXCEPT
                            !.added = Append(@, <<publication[1].id, race[r].target>>),
                            !.linked = @ + 1]]
    /\ UNCHANGED <<publication, researcher, publication_author, pc, fuzzy_threshold,
                   db, stats, authors_by_org, org_i, merged_authors, cluster_of,
                   author_i, pub_i, linked, call, runs, hist, args>>

\* line 320: db.commit()
LinkRaceCommit(r) ==
    /\ race[r].pc = "commit"
    /\ publication_author' = publication_author \o race[r].added
    /\ race' = [race EXCEPT ![r] = [@ EXCEPT !.pc = "done", !.added = <<>>]]
    /\ UNCHANGED <<publication, researcher, pc, fuzzy_threshold, db, stats,
                   authors_by_org, org_i, merged_authors, cluster_of, author_i,
                   pub_i, linked, call, runs, hist, args>>

\* lines 267-275
LinkRaceStart ==
    [pc |-> "check", k |-> 1, target |-> None, added |-> <<>>, linked |-> 0,
     errors |-> 0]

InitLinkRace ==
    /\ publication \in LinkRacePublications
    /\ researcher \in {rs \in SeqsUpTo(StoredProfiles, 0, 1) : ConstraintsHold(rs)}
    /\ publication_author = <<>>
    /\ pc = "link"
    /\ fuzzy_threshold \in PipelineThresholds
    /\ db = Closed
    /\ stats = NewStats
    /\ authors_by_org = <<>>
    /\ org_i = 1
    /\ merged_authors = <<>>
    /\ cluster_of = <<>>
    /\ author_i = 1
    /\ pub_i = 1
    /\ linked = 0
    /\ call = "link"
    /\ runs = 1
    /\ hist = <<NoCall, NoCall>>
    /\ args = None
    /\ race = [r \in Runs |-> LinkRaceStart]

NextLinkRace ==
    \E r \in Runs : LinkRaceCheck(r) \/ LinkRaceInsert(r) \/ LinkRaceCommit(r)

SpecLinkRace == InitLinkRace /\ [][NextLinkRace]_vars

\* C29: however the linking phases of the two runs interleave, the link
\* table never holds two rows of one (publication_id, researcher_id) pair
C29_RaceLinksNoPairTwice ==
    \A i \in 1..Len(publication_author) :
        \A j \in (i + 1)..Len(publication_author) :
            publication_author[i] # publication_author[j]

(***************************************************************************)
(* The counters of the run summary.                                        *)
(***************************************************************************)

\* the mentions of the buckets the loop of line 102 has gone through
TotalMentions ==
    LET RECURSIVE Sum(_)
        Sum(buckets) ==
            IF buckets = <<>> THEN 0
            ELSE Len(Head(buckets).authors) + Sum(Tail(buckets))
    IN  Sum(authors_by_org)

\* C30: in the summary of an enrich_all that has ended, disambiguation_merges
\* is the sum over the organizations of the mentions minus the clusters, and
\* authors_processed is at least the merges plus the profiles created plus
\* the profiles updated, and equal to it when no error was counted
C30_SummaryCountersAddUp ==
    EnrichEnded
        => /\ stats.disambiguation_merges = TotalMentions - TotalClusters
           /\ stats.authors_processed
                 >= stats.disambiguation_merges + stats.researchers_created
                        + stats.researchers_updated
           /\ stats.errors = 0
                 => stats.authors_processed
                       = stats.disambiguation_merges + stats.researchers_created
                            + stats.researchers_updated

\* a run over two organizations that counted no error, merged two mentions,
\* created a profile and updated one
C30_Witness ==
    /\ EnrichEnded
    /\ Len(authors_by_org) = 2
    /\ stats.errors = 0
    /\ stats.disambiguation_merges >= 1
    /\ stats.researchers_created >= 1
    /\ stats.researchers_updated >= 1
    /\ stats.authors_processed
          = stats.disambiguation_merges + stats.researchers_created
               + stats.researchers_updated

====
